---- MODULE Spec2Model ----
(***************************************************************************)
(* Conway's Game of Life simulator (src/game_of_life.py): the GameOfLife   *)
(* object, its grid operations and the frame loop of GameOfLife.run.       *)
(*                                                                         *)
(* Scaled quantities: a density d of randomize_grid is held in tenths      *)
(* (3 stands for 0.3) and a value of random.random() in tenths as well     *)
(* (0..9 stands for 0.0 .. 0.9, every value being < 1).                    *)
(***************************************************************************)
EXTENDS Integers, Sequences, FiniteSets, TLC

VARIABLES
    width,       \* self.width
    height,      \* self.height
    cell_size,   \* self.cell_size
    rows,        \* self.rows
    cols,        \* self.cols
    grid,        \* self.grid : grid[i][j] in {0, 1}, i in 0..rows-1, j in 0..cols-1
    running,     \* self.running
    paused,      \* self.paused
    generation,  \* self.generation
    event,       \* the loop variable `event` of run: the event dispatched last
    nev,         \* how many events of the current batch have been dispatched
    call,        \* the call the script made last on the game before run(), with
                 \* its arguments
    pc           \* position of the program

vars == <<width, height, cell_size, rows, cols, grid, running, paused,
          generation, event, nev, call, pc>>

----------------------------------------------------------------------------
(* Bounds of the model *)

\* largest surface width, in pixels, a configuration or a pointer position takes
MaxWidth == 6
\* largest surface height, in pixels
MaxHeight == 4
\* most events one batch of pygame.event.get() holds
MaxBatch == 2
\* the generation counter is followed up to this value
MaxGen == 2
\* after a pattern is seeded the generation counter is followed up to this value
MaxSteps == 4
\* the grids the step rule is applied to have 1..MaxRows rows and 1, 2 or 3
\* columns
MaxRows == 3
StepCols == {1, 2, 3}

\* configurations given to the constructor
Widths == {1, MaxWidth}
Heights == {1, MaxHeight}
CellSizes == {0, 2, 3}

\* pointer positions: one pixel left of / above the surface, its first pixel,
\* pixels inside, its last pixel and its far edge
PosX == {0 - 1, 0, 3, MaxWidth - 1, MaxWidth}
PosY == {0 - 1, 0, 2, MaxHeight - 1, MaxHeight}

\* numbers of rows and of columns of the grids a pattern is seeded on and stepped
PatternDims == {5, 6}
\* densities given to randomize_grid, in tenths: 0.0, 0.3, 0.5 and 1.0
Densities == {0, 5, 10}

\* values of random.random(), in tenths
RandomValues == 0..9
\* default density of randomize_grid, in tenths
DefaultDensity == 3

----------------------------------------------------------------------------
(* Events of pygame.event.get() *)

Ev(type, key, button, pos) == [type |-> type, key |-> key, button |-> button, pos |-> pos]

NoEvent == Ev("NONE", "none", 0, <<0, 0>>)
QuitEvent == Ev("QUIT", "none", 0, <<0, 0>>)
KeyEvent(k) == Ev("KEYDOWN", k, 0, <<0, 0>>)
MouseEvent(b, p) == Ev("MOUSEBUTTONDOWN", "none", b, p)
OtherEvent == Ev("MOUSEMOTION", "none", 0, <<0, 0>>)

\* presses of the left button anywhere, and of another button at the origin
MouseEvents ==
    {MouseEvent(1, <<x, y>>) : x \in PosX, y \in PosY} \cup {MouseEvent(3, <<0, 0>>)}

----------------------------------------------------------------------------
(* The grid and its operations *)

\* np.zeros((R, C), dtype=int)
zeros(R, C) == [i \in 0..(R - 1) |-> [j \in 0..(C - 1) |-> 0]]

\* every R x C array of 0 / 1
Grids(R, C) == [0..(R - 1) -> [0..(C - 1) -> {0, 1}]]

\* Python's a % n for n > 0: the result is in 0..n-1
PyMod(a, n) == a % n

\* Python's a // n for n > 0: the floor of a / n
PyFloorDiv(a, n) == a \div n

\* the offsets (i, j) in the order of the two loops of count_neighbors,
\* (0, 0) being skipped by `continue`
NeighborOffsets ==
    << <<0 - 1, 0 - 1>>, <<0 - 1, 0>>, <<0 - 1, 1>>,
       <<0, 0 - 1>>,                   <<0, 1>>,
       <<1, 0 - 1>>,     <<1, 0>>,     <<1, 1>> >>

RECURSIVE CountFrom(_, _, _, _, _, _)
\* count += self.grid[neighbor_row][neighbor_col] for the offsets k..8
CountFrom(g, R, C, row, col, k) ==
    IF k > Len(NeighborOffsets) THEN 0
    ELSE LET i == NeighborOffsets[k][1]
             j == NeighborOffsets[k][2]
             neighbor_row == PyMod(row + i, R)
             neighbor_col == PyMod(col + j, C)
         IN  g[neighbor_row][neighbor_col] + CountFrom(g, R, C, row, col, k + 1)

\* count_neighbors on a grid with edges: a position beyond an edge counts as DEAD
count_neighbors_no_wrap(g, R, C, row, col) ==
    Cardinality({k \in 1..Len(NeighborOffsets) :
        LET i == NeighborOffsets[k][1]
            j == NeighborOffsets[k][2]
        IN  /\ row + i \in 0..(R - 1)
            /\ col + j \in 0..(C - 1)
            /\ g[row + i][col + j] = 1})

\* count_neighbors without the `continue` that skips the cell itself
count_neighbors_with_self(g, R, C, row, col) ==
    CountFrom(g, R, C, row, col, 1) + g[row][col]

count_neighbors(g, R, C, row, col) == CountFrom(g, R, C, row, col, 1)

\* update_grid with new_grid created by np.ones: no cell is ever written 0
update_grid_from_ones(g, R, C) ==
    [i \in 0..(R - 1) |-> [j \in 0..(C - 1) |-> 1]]

\* update_grid with the test for birth used for survival as well
update_grid_survive_on_three(g, R, C) ==
    [i \in 0..(R - 1) |-> [j \in 0..(C - 1) |->
        IF CountFrom(g, R, C, i, j, 1) = 3 THEN 1 ELSE 0]]

RECURSIVE InPlaceFrom(_, _, _, _)
\* the rule applied cell by cell, in row-major order from cell number k on,
\* each result written into the grid the later cells are counted in
InPlaceFrom(g, R, C, k) ==
    IF k >= R * C THEN g
    ELSE LET i == k \div C
             j == k % C
             neighbors == CountFrom(g, R, C, i, j, 1)
             v == IF g[i][j] = 1
                  THEN (IF neighbors = 2 \/ neighbors = 3 THEN 1 ELSE 0)
                  ELSE (IF neighbors = 3 THEN 1 ELSE 0)
         IN  InPlaceFrom([g EXCEPT ![i][j] = v], R, C, k + 1)

\* update_grid without new_grid: the rule written into self.grid itself
update_grid_in_place(g, R, C) == InPlaceFrom(g, R, C, 0)

update_grid(g, R, C) ==
    [i \in 0..(R - 1) |-> [j \in 0..(C - 1) |->
        LET neighbors == count_neighbors(g, R, C, i, j)
        IN  IF g[i][j] = 1
            THEN (IF neighbors = 2 \/ neighbors = 3 THEN 1 ELSE 0)
            ELSE (IF neighbors = 3 THEN 1 ELSE 0)]]

\* randomize_grid comparing with <= : a draw of exactly 0.0 gives an ALIVE
\* cell even at density 0.0
randomize_grid_inclusive(R, C, density) ==
    [0..(R - 1) -> [0..(C - 1) ->
        {IF r <= density THEN 1 ELSE 0 : r \in RandomValues}]]

\* the grids randomize_grid(density) can leave: each cell is 1 iff its own
\* draw of random.random() is below the density
randomize_grid(R, C, density) ==
    [0..(R - 1) -> [0..(C - 1) ->
        {IF r < density THEN 1 ELSE 0 : r \in RandomValues}]]

clear_grid(R, C) == zeros(R, C)

\* handle_mouse_click testing only the upper bounds, as the pattern seeding
\* does: numpy takes a negative index from the end of the axis
handle_mouse_click_no_lower_bound(g, R, C, cs, pos) ==
    LET x == pos[1]
        y == pos[2]
        col == PyFloorDiv(x, cs)
        row == PyFloorDiv(y, cs)
    IN  IF row < R /\ col < C /\ R > 0 /\ C > 0 /\ row >= 0 - R /\ col >= 0 - C
        THEN [g EXCEPT ![PyMod(row, R)][PyMod(col, C)] = 1 - g[PyMod(row, R)][PyMod(col, C)]]
        ELSE g

\* handle_mouse_click adding 1 to the cell instead of toggling it
handle_mouse_click_incrementing(g, R, C, cs, pos) ==
    LET x == pos[1]
        y == pos[2]
        col == PyFloorDiv(x, cs)
        row == PyFloorDiv(y, cs)
    IN  IF 0 <= row /\ row < R /\ 0 <= col /\ col < C
        THEN [g EXCEPT ![row][col] = g[row][col] + 1]
        ELSE g

\* handle_mouse_click with x and y taken in the other order
handle_mouse_click_swapped(g, R, C, cs, pos) ==
    LET y == pos[1]
        x == pos[2]
        col == PyFloorDiv(x, cs)
        row == PyFloorDiv(y, cs)
    IN  IF 0 <= row /\ row < R /\ 0 <= col /\ col < C
        THEN [g EXCEPT ![row][col] = 1 - g[row][col]]
        ELSE g

handle_mouse_click(g, R, C, cs, pos) ==
    LET x == pos[1]
        y == pos[2]
        col == PyFloorDiv(x, cs)
        row == PyFloorDiv(y, cs)
    IN  IF 0 <= row /\ row < R /\ 0 <= col /\ col < C
        THEN [g EXCEPT ![row][col] = 1 - g[row][col]]
        ELSE g

\* the templates of create_glider and create_blinker
glider == << <<0, 1, 0>>, <<0, 0, 1>>, <<1, 1, 1>> >>
blinker == << <<1, 1, 1>> >>

RECURSIVE WriteFrom(_, _, _, _, _, _, _)
\* the two loops over a template, from its cell number k (row-major) on, for
\* start_row >= 0 and start_col >= 0: a cell is written where
\* start_row + i < rows and start_col + j < cols
WriteFrom(g, R, C, template, start_row, start_col, k) ==
    LET w == Len(template[1])
        i == k \div w
        j == k % w
        cell == template[i + 1][j + 1]
    IN  IF k >= Len(template) * w THEN g
        ELSE IF start_row + i < R /\ start_col + j < C
             THEN WriteFrom([g EXCEPT ![start_row + i][start_col + j] = cell],
                            R, C, template, start_row, start_col, k + 1)
             ELSE WriteFrom(g, R, C, template, start_row, start_col, k + 1)

\* create_glider writing only the template's 1 cells (`if cell:`)
create_glider_alive_only(g, R, C, start_row, start_col) ==
    LET w == WriteFrom(g, R, C, glider, start_row, start_col, 0)
    IN  [i \in 0..(R - 1) |-> [j \in 0..(C - 1) |->
            IF w[i][j] = 1 THEN 1 ELSE g[i][j]]]

create_glider(g, R, C, start_row, start_col) ==
    WriteFrom(g, R, C, glider, start_row, start_col, 0)

create_blinker(g, R, C, start_row, start_col) ==
    WriteFrom(g, R, C, blinker, start_row, start_col, 0)

----------------------------------------------------------------------------
(* Construction *)

\* no call made on the game yet
NoCall == [op |-> "none", start_row |-> 0, start_col |-> 0, density |-> 0]

\* GameOfLife(width, height, cell_size), the script going on at `start`:
\* width // 0 raises ZeroDivisionError
GameOfLifeAt(w, h, cs, start) ==
    /\ width = w
    /\ height = h
    /\ cell_size = cs
    /\ event = NoEvent
    /\ nev = 0
    /\ generation = 0
    /\ paused = FALSE
    /\ call = NoCall
    /\ IF cs = 0
       THEN /\ pc = "failed"
            /\ rows = 0
            /\ cols = 0
            /\ grid = zeros(0, 0)
            /\ running = FALSE
       ELSE /\ pc = start
            /\ cols = PyFloorDiv(w, cs)
            /\ rows = PyFloorDiv(h, cs)
            /\ grid = zeros(PyFloorDiv(h, cs), PyFloorDiv(w, cs))
            /\ running = TRUE

\* the game constructed and run() entered
GameOfLife(w, h, cs) == GameOfLifeAt(w, h, cs, "loop")

Init == \E w \in Widths, h \in Heights, cs \in CellSizes : GameOfLife(w, h, cs)

----------------------------------------------------------------------------
(* GameOfLife.run *)

config == <<width, height, cell_size, rows, cols>>

\* while self.running: ... pygame.event.get()
CollectBatch ==
    /\ pc = "loop"
    /\ running
    /\ pc' = "events"
    /\ nev' = 0
    /\ UNCHANGED <<config, call, grid, running, paused, generation, event>>

\* GetEvents with the loop written `while True:`
GetEventsAlways ==
    /\ pc = "loop"
    /\ generation < MaxGen
    /\ pc' = "events"
    /\ nev' = 0
    /\ UNCHANGED <<config, call, grid, running, paused, generation, event>>

\* a frame begins, as long as the counter is below the bound of the model
GetEvents == generation < MaxGen /\ CollectBatch

\* the loop condition fails: pygame.quit(); sys.exit()
Exit ==
    /\ pc = "loop"
    /\ ~running
    /\ pc' = "done"
    /\ UNCHANGED <<config, call, grid, running, paused, generation, event, nev>>

\* the for loop takes the next event of the batch
Take(e) ==
    /\ pc = "events"
    /\ nev < MaxBatch
    /\ nev' = nev + 1
    /\ event' = e
    /\ pc' = pc

OnQuit ==
    /\ Take(QuitEvent)
    /\ running' = FALSE
    /\ UNCHANGED <<config, call, grid, paused, generation>>

OnSpace ==
    /\ Take(KeyEvent("K_SPACE"))
    /\ paused' = ~paused
    /\ UNCHANGED <<config, call, grid, running, generation>>

\* OnRandomize also resuming the simulation
OnRandomizeResuming ==
    /\ Take(KeyEvent("K_r"))
    /\ grid' \in randomize_grid(rows, cols, DefaultDensity)
    /\ generation' = 0
    /\ paused' = FALSE
    /\ UNCHANGED <<config, call, running>>

OnRandomize ==
    /\ Take(KeyEvent("K_r"))
    /\ grid' \in randomize_grid(rows, cols, DefaultDensity)
    /\ generation' = 0
    /\ UNCHANGED <<config, call, running, paused>>

\* OnClear without `self.generation = 0`
OnClearKeepingGeneration ==
    /\ Take(KeyEvent("K_c"))
    /\ grid' = clear_grid(rows, cols)
    /\ UNCHANGED <<config, call, running, paused, generation>>

OnClear ==
    /\ Take(KeyEvent("K_c"))
    /\ grid' = clear_grid(rows, cols)
    /\ generation' = 0
    /\ UNCHANGED <<config, call, running, paused>>

OnEscape ==
    /\ Take(KeyEvent("K_ESCAPE"))
    /\ running' = FALSE
    /\ UNCHANGED <<config, call, grid, paused, generation>>

OnOtherKey ==
    /\ Take(KeyEvent("K_a"))
    /\ UNCHANGED <<config, call, grid, running, paused, generation>>

\* OnMouseButtonDown with the simulation update inside the for loop
OnMouseButtonDownThenUpdate ==
    \E e \in MouseEvents :
        LET clicked == IF e.button = 1
                       THEN handle_mouse_click(grid, rows, cols, cell_size, e.pos)
                       ELSE grid
        IN  /\ Take(e)
            /\ IF ~paused
               THEN /\ grid' = update_grid(clicked, rows, cols)
                    /\ generation' = generation + 1
               ELSE /\ grid' = clicked
                    /\ generation' = generation
            /\ UNCHANGED <<config, call, running, paused>>

\* OnMouseButtonDown with the counter reset as randomize and clear reset it
OnMouseButtonDownResetting ==
    \E e \in MouseEvents :
        /\ Take(e)
        /\ grid' = IF e.button = 1
                   THEN handle_mouse_click(grid, rows, cols, cell_size, e.pos)
                   ELSE grid
        /\ generation' = 0
        /\ UNCHANGED <<config, call, running, paused>>

OnMouseButtonDown ==
    \E e \in MouseEvents :
        /\ Take(e)
        /\ grid' = IF e.button = 1
                   THEN handle_mouse_click(grid, rows, cols, cell_size, e.pos)
                   ELSE grid
        /\ UNCHANGED <<config, call, running, paused, generation>>

OnOtherEvent ==
    /\ Take(OtherEvent)
    /\ UNCHANGED <<config, call, grid, running, paused, generation>>

\* Update with update_grid called a second time in the frame
UpdateTwice ==
    /\ pc = "events"
    /\ pc' = "loop"
    /\ IF ~paused
       THEN /\ grid' = update_grid(update_grid(grid, rows, cols), rows, cols)
            /\ generation' = generation + 2
       ELSE UNCHANGED <<grid, generation>>
    /\ UNCHANGED <<config, call, running, paused, event, nev>>

\* Update without the test of self.paused
UpdateIgnoringPause ==
    /\ pc = "events"
    /\ pc' = "loop"
    /\ grid' = update_grid(grid, rows, cols)
    /\ generation' = generation + 1
    /\ UNCHANGED <<config, call, running, paused, event, nev>>

\* Update with the step skipped once a quit has been dispatched
\* (`if not self.paused and self.running`)
UpdateUnlessQuit ==
    /\ pc = "events"
    /\ pc' = "loop"
    /\ IF ~paused /\ running
       THEN /\ grid' = update_grid(grid, rows, cols)
            /\ generation' = generation + 1
       ELSE UNCHANGED <<grid, generation>>
    /\ UNCHANGED <<config, call, running, paused, event, nev>>

\* the batch is exhausted: update the simulation unless paused, draw, tick
Update ==
    /\ pc = "events"
    /\ pc' = "loop"
    /\ IF ~paused
       THEN /\ grid' = update_grid(grid, rows, cols)
            /\ generation' = generation + 1
       ELSE UNCHANGED <<grid, generation>>
    /\ UNCHANGED <<config, call, running, paused, event, nev>>

----------------------------------------------------------------------------
(* The script before run(): lines 197-205 with any offsets and densities *)

GliderCall(r, c) ==
    [op |-> "create_glider", start_row |-> r, start_col |-> c, density |-> 0]
BlinkerCall(r, c) ==
    [op |-> "create_blinker", start_row |-> r, start_col |-> c, density |-> 0]
RandomizeCall(d) ==
    [op |-> "randomize_grid", start_row |-> 0, start_col |-> 0, density |-> d]

\* create_glider(game, start_row, start_col), the offset from (0, 0) to
\* (rows, cols)
CreateGlider ==
    /\ pc = "main"
    /\ \E r \in 0..rows, c \in 0..cols :
           /\ grid' = create_glider(grid, rows, cols, r, c)
           /\ call' = GliderCall(r, c)
    /\ UNCHANGED <<config, running, paused, generation, event, nev, pc>>

\* create_blinker(game, start_row, start_col)
CreateBlinker ==
    /\ pc = "main"
    /\ \E r \in 0..rows, c \in 0..cols :
           /\ grid' = create_blinker(grid, rows, cols, r, c)
           /\ call' = BlinkerCall(r, c)
    /\ UNCHANGED <<config, running, paused, generation, event, nev, pc>>

\* game.randomize_grid(density)
RandomizeGrid ==
    /\ pc = "main"
    /\ \E d \in Densities :
           /\ grid' \in randomize_grid(rows, cols, d)
           /\ call' = RandomizeCall(d)
    /\ generation' = 0
    /\ UNCHANGED <<config, running, paused, event, nev, pc>>

\* game.run()
Run ==
    /\ pc = "main"
    /\ pc' = "loop"
    /\ UNCHANGED <<config, call, grid, running, paused, generation, event, nev>>

\* a frame begins, as long as the counter is below the bound for patterns
GetEventsPattern == generation < MaxSteps /\ CollectBatch

----------------------------------------------------------------------------

Next ==
    \/ GetEvents
    \/ Exit
    \/ OnQuit
    \/ OnSpace
    \/ OnRandomize
    \/ OnClear
    \/ OnEscape
    \/ OnOtherKey
    \/ OnMouseButtonDown
    \/ OnOtherEvent
    \/ Update

Spec == Init /\ [][Next]_vars

----------------------------------------------------------------------------
(* The step rule on every grid: the run loop, from any grid the pointer can  *)
(* draw, with every batch empty                                              *)

InitStep ==
    \E R \in 1..MaxRows, C \in StepCols :
        \E g \in Grids(R, C) :
            /\ width = C
            /\ height = R
            /\ cell_size = 1
            /\ rows = PyFloorDiv(R, 1)
            /\ cols = PyFloorDiv(C, 1)
            /\ grid = g
            /\ running = TRUE
            /\ paused = FALSE
            /\ generation = 0
            /\ event = NoEvent
            /\ nev = 0
            /\ call = NoCall
            /\ pc = "events"

NextStep == Update \/ GetEvents

SpecStep == InitStep /\ [][NextStep]_vars

----------------------------------------------------------------------------
(* One pattern seeded on an all-DEAD grid, then the run loop with every      *)
(* batch empty                                                               *)

InitPattern ==
    \E R \in PatternDims, C \in PatternDims : GameOfLifeAt(C, R, 1, "main")

NextPattern ==
    \/ call = NoCall /\ CreateGlider
    \/ call = NoCall /\ CreateBlinker
    \/ Run
    \/ GetEventsPattern
    \/ Update

SpecPattern == InitPattern /\ [][NextPattern]_vars

----------------------------------------------------------------------------
(* The calls a script makes on a game before it runs it: seeding and        *)
(* randomize_grid in any order, on grids of 2 or 3 rows and 3 columns       *)

SeedRows == {2, 3}
SeedCols == {3}

InitSeed ==
    \E R \in SeedRows, C \in SeedCols : GameOfLifeAt(C, R, 1, "main")

NextSeed ==
    \/ CreateGlider
    \/ CreateBlinker
    \/ RandomizeGrid

SpecSeed == InitSeed /\ [][NextSeed]_vars

----------------------------------------------------------------------------
(* The whole program on the 1 x 2 grid: the calls of a script in any order, *)
(* then the run loop with every event                                       *)

InitAll == GameOfLifeAt(MaxWidth, MaxHeight, 3, "main")

NextAll ==
    \/ CreateGlider
    \/ CreateBlinker
    \/ RandomizeGrid
    \/ Run
    \/ Next

SpecAll == InitAll /\ [][NextAll]_vars

----------------------------------------------------------------------------
(* The run loop under its scheduling, on the 1 x 2 grid: the for loop over  *)
(* a batch ends, the batch being finite, and the loop condition is tested   *)
(* after every frame                                                        *)

InitFair == GameOfLife(MaxWidth, MaxHeight, 3)

Fairness == WF_vars(Update) /\ WF_vars(Exit)

SpecFair == InitFair /\ [][Next]_vars /\ Fairness

----------------------------------------------------------------------------
(* Vocabulary of the properties *)

\* this step of the run loop dispatches the event e
Dispatched(e) == pc = "events" /\ nev' = nev + 1 /\ event' = e

\* this step of the run loop dispatches a press of the left button
LeftClick ==
    /\ pc = "events" /\ nev' = nev + 1
    /\ event'.type = "MOUSEBUTTONDOWN" /\ event'.button = 1

\* this step of the run loop ends a frame: the batch is exhausted
FrameEnd == pc = "events" /\ pc' = "loop"

\* the cell a pixel position falls in
CellRow(pos) == pos[2] \div cell_size
CellCol(pos) == pos[1] \div cell_size
InGrid(pos) == CellRow(pos) \in 0..(rows - 1) /\ CellCol(pos) \in 0..(cols - 1)

\* the grid g with the value of the one cell (r, c) flipped
Flipped(g, r, c) ==
    [i \in 0..(rows - 1) |-> [j \in 0..(cols - 1) |->
        IF i = r /\ j = c THEN 1 - g[i][j] ELSE g[i][j]]]

AllDead == \A i \in 0..(rows - 1) : \A j \in 0..(cols - 1) : grid[i][j] = 0
AllAlive == \A i \in 0..(rows - 1) : \A j \in 0..(cols - 1) : grid[i][j] = 1
AliveCells == {c \in (0..(rows - 1)) \X (0..(cols - 1)) : grid[c[1]][c[2]] = 1}

\* the 8 offsets around a cell
Around == ((0 - 1)..1) \X ((0 - 1)..1) \ {<<0, 0>>}

\* how many of the 8 wrapped positions around (row, col) hold an ALIVE cell of g
AliveAround(g, row, col) ==
    Cardinality({d \in Around : g[(row + d[1]) % rows][(col + d[2]) % cols] = 1})

\* the all-DEAD grid but for the ALIVE cells of a template put with its top
\* left cell at (r, c), rows and columns taken modulo rows and cols
Image(template, r, c) ==
    [i \in 0..(rows - 1) |-> [j \in 0..(cols - 1) |->
        IF \E a \in 1..Len(template) : \E b \in 1..Len(template[1]) :
               /\ template[a][b] = 1
               /\ (r + a - 1) % rows = i
               /\ (c + b - 1) % cols = j
        THEN 1 ELSE 0]]

\* the template put at (r, c) lies within the grid
Fits(template, r, c) == r + Len(template) <= rows /\ c + Len(template[1]) <= cols

----------------------------------------------------------------------------
(* C1 *)

\* C1 (as stated): once a quit signal or an escape key event has been
\* dispatched (running is False), no further event is dispatched and the
\* paused flag, the grid and the generation counter never change again.
C1_QuitIsImmediateSink ==
    [][~running => (nev' = nev /\ UNCHANGED <<paused, grid, generation>>)]_vars

\* C1 (amended): quit/escape take effect at the frame boundary. Once one has
\* been dispatched, running stays False; the frame in progress still ends with
\* one step unless paused; at the next test of the loop condition the loop
\* exits without collecting another batch; the loop exits only then; and after
\* the exit nothing changes any more.
C1_QuitIsSinkAtFrameBoundary ==
    [][ /\ ~running => ~running'
        /\ (~running /\ FrameEnd) =>
               generation' = generation + (IF paused THEN 0 ELSE 1)
        /\ (~running /\ pc = "loop") =>
               (pc' = "done" /\ UNCHANGED <<paused, grid, generation, nev, event>>)
        /\ pc' = "done" => ~running
        /\ pc # "done" ]_vars

\* the loop has exited after a batch <<quit, pause>>: the pause key that
\* followed the quit signal in the batch was dispatched and paused the game
C1_Witness ==
    /\ pc = "done"
    /\ nev = 2
    /\ event = KeyEvent("K_SPACE")
    /\ paused
    /\ generation = 0
    /\ rows = 2 /\ cols = 3

----------------------------------------------------------------------------
(* C2 *)

\* C2: a frame dispatches the events of its batch one by one and then ends
\* with update_grid invoked exactly once if the state is then Running and not
\* at all if it is Paused; no step happens while events are dispatched or
\* between frames, and the next frame starts with a new batch.
C2_StepOncePerFrame ==
    [][ /\ FrameEnd =>
               IF paused
               THEN UNCHANGED <<grid, generation>>
               ELSE /\ grid' = update_grid(grid, rows, cols)
                    /\ generation' = generation + 1
        /\ ~FrameEnd => generation' \in {generation, 0}
        /\ (pc = "events" /\ ~FrameEnd) => (pc' = "events" /\ nev' = nev + 1)
        /\ pc = "loop" =>
               /\ UNCHANGED <<grid, generation>>
               /\ (pc' = "events" /\ nev' = 0) \/ pc' = "done" ]_vars

\* a frame whose batch held MaxBatch events has ended with one step
C2_Witness ==
    /\ pc = "loop"
    /\ nev = MaxBatch
    /\ ~paused
    /\ generation = 1
    /\ event = MouseEvent(1, <<0, 0>>)
    /\ rows = 2 /\ cols = 3

----------------------------------------------------------------------------
(* C3 *)

\* C3: while Paused, every step of the run loop other than the dispatch of an
\* event (so every frame with an empty batch) leaves the grid and the
\* generation counter unchanged; a left click dispatched while Paused flips
\* its cell, a clear key leaves the grid all DEAD and a randomize key leaves
\* some 0/1 grid, each with the counter handled as while Running.
C3_PauseGating ==
    [][ paused =>
        /\ nev' # nev + 1 => UNCHANGED <<grid, generation>>
        /\ (LeftClick /\ InGrid(event'.pos)) =>
               /\ grid' = Flipped(grid, CellRow(event'.pos), CellCol(event'.pos))
               /\ generation' = generation
        /\ Dispatched(KeyEvent("K_c")) =>
               /\ \A i \in 0..(rows - 1) : \A j \in 0..(cols - 1) : grid'[i][j] = 0
               /\ generation' = 0
        /\ Dispatched(KeyEvent("K_r")) =>
               /\ grid' \in Grids(rows, cols)
               /\ generation' = 0 ]_vars

\* a frame that began Paused after a step, with a batch <<click, click>>, has
\* ended: the clicked cell is ALIVE and the counter still shows the one step
C3_Witness ==
    /\ pc = "loop"
    /\ paused
    /\ nev = 2
    /\ generation = 1
    /\ event = MouseEvent(1, <<5, 3>>)
    /\ rows = 2 /\ cols = 3 /\ cell_size = 2
    /\ grid[1][2] = 1

----------------------------------------------------------------------------
(* C4 *)

\* C4: a step replaces the grid by a function of the grid before the step
\* alone: each cell is ALIVE afterwards iff it was ALIVE with 2 or 3 ALIVE
\* cells around it in the old grid, or DEAD with exactly 3.
C4_StepRule ==
    [][ (FrameEnd /\ ~paused) =>
            \A i \in 0..(rows - 1) : \A j \in 0..(cols - 1) :
                LET n == AliveAround(grid, i, j)
                IN  grid'[i][j] =
                        IF \/ (grid[i][j] = 1 /\ n \in {2, 3})
                           \/ (grid[i][j] = 0 /\ n = 3)
                        THEN 1 ELSE 0 ]_vars

\* one step has left a 3 x 3 grid all ALIVE: on this torus that is the step
\* from three ALIVE cells, each surviving with 2 ALIVE cells around it while
\* each of the six DEAD cells, with 3 around it, is born
C4_Witness ==
    /\ pc = "loop"
    /\ generation = 1
    /\ rows = 3 /\ cols = 3
    /\ AllAlive

----------------------------------------------------------------------------
(* C5 *)

\* C5: on every grid with rows > 0 and cols > 0 and for every cell in range,
\* count_neighbors returns the number, between 0 and 8, of the 8 wrapped
\* positions around the cell that hold an ALIVE cell; so an ALIVE cell at
\* (rows-1, cols-1) is counted for the cell (0, 0).
C5_NeighborCount ==
    (rows > 0 /\ cols > 0) =>
        /\ \A row \in 0..(rows - 1) : \A col \in 0..(cols - 1) :
               LET n == count_neighbors(grid, rows, cols, row, col)
               IN  n = AliveAround(grid, row, col) /\ n \in 0..8
        /\ grid[rows - 1][cols - 1] = 1 =>
               count_neighbors(grid, rows, cols, 0, 0) >= 1

\* a step has left a 3 x 3 grid whose ALIVE cells are the four corners: the
\* three ALIVE cells counted for (0, 0) are all reached by wrapping around an
\* edge, (2, 2) among them, which is why each corner survived the step
C5_Witness ==
    /\ pc = "loop"
    /\ generation = 1
    /\ rows = 3 /\ cols = 3
    /\ AliveCells = {<<0, 0>>, <<0, 2>>, <<2, 0>>, <<2, 2>>}
    /\ count_neighbors(grid, rows, cols, 0, 0) = 3

----------------------------------------------------------------------------
(* C6 *)

\* C6: the generation counter is 0 after construction; a step sets it to its
\* prior value plus 1; the randomize and the clear key set it to 0 whatever
\* it was.
C6_GenerationCounter ==
    /\ generation = 0
    /\ [][ /\ (FrameEnd /\ ~paused) => generation' = generation + 1
           /\ Dispatched(KeyEvent("K_r")) => generation' = 0
           /\ Dispatched(KeyEvent("K_c")) => generation' = 0 ]_vars

\* a Running frame whose batch was the one randomize key has ended: the
\* counter was reset and then advanced by the frame's step
C6_Witness ==
    /\ pc = "loop"
    /\ ~paused
    /\ nev = 1
    /\ event = KeyEvent("K_r")
    /\ generation = 1
    /\ rows = 2 /\ cols = 3
    /\ ~AllDead

----------------------------------------------------------------------------
(* C7 *)

\* C7: a left press whose position converts to a row outside [0, rows) or a
\* column outside [0, cols) leaves every cell unchanged and the run loop goes
\* on with the batch.
C7_ClickOutOfBounds ==
    [][ (LeftClick /\ ~InGrid(event'.pos)) =>
            (grid' = grid /\ pc' = "events") ]_vars

\* a press one pixel left of the surface (column -1, row 1) has been
\* dispatched as the second event of a batch, on a grid whose only ALIVE cell
\* is (1, 2), the cell a wrapped column index would have reached
C7_Witness ==
    /\ pc = "events"
    /\ nev = 2
    /\ event = MouseEvent(1, <<0 - 1, 3>>)
    /\ rows = 2 /\ cols = 3 /\ cell_size = 2
    /\ generation = 0
    /\ AliveCells = {<<1, 2>>}

----------------------------------------------------------------------------
(* C8 *)

\* C8: a left press at (x, y) inside the grid flips exactly the cell
\* (y div cell_size, x div cell_size) and no other; a second such press on
\* the grid it leaves gives back the grid before the first.
C8_ClickFlipsOneCell ==
    [][ (LeftClick /\ InGrid(event'.pos)) =>
            LET r == CellRow(event'.pos)
                c == CellCol(event'.pos)
            IN  /\ grid'[r][c] = 1 - grid[r][c]
                /\ \A i \in 0..(rows - 1) : \A j \in 0..(cols - 1) :
                       (i # r \/ j # c) => grid'[i][j] = grid[i][j]
                /\ handle_mouse_click(grid', rows, cols, cell_size, event'.pos) = grid ]_vars

\* a press at pixel (5, 2), in the cell (1, 2), has been dispatched as the
\* second event of a batch after a step: the cell is DEAD again and (0, 0) is
\* the only ALIVE cell
C8_Witness ==
    /\ pc = "events"
    /\ nev = 2
    /\ event = MouseEvent(1, <<5, 2>>)
    /\ rows = 2 /\ cols = 3 /\ cell_size = 2
    /\ generation = 1
    /\ AliveCells = {<<0, 0>>}

----------------------------------------------------------------------------
(* C9 *)

\* C9: a configuration whose derived rows or cols is not positive is rejected
\* at construction, so every constructed game has rows > 0 and cols > 0.
C9_NoZeroAreaGrid == pc # "failed" => (rows > 0 /\ cols > 0)

----------------------------------------------------------------------------
(* C10 *)

\* C10: the simulation starts Running; the pause/resume key always flips the
\* paused flag and nothing else ever changes it.
C10_PauseOnlyBySpace ==
    /\ paused = FALSE
    /\ [][ /\ Dispatched(KeyEvent("K_SPACE")) => paused' = ~paused
           /\ paused' # paused => Dispatched(KeyEvent("K_SPACE")) ]_vars

\* the pause key has been dispatched as the second event of a batch, on a
\* grid with three ALIVE cells, and the game is Paused
C10_Witness ==
    /\ pc = "events"
    /\ nev = 2
    /\ event = KeyEvent("K_SPACE")
    /\ paused
    /\ generation = 0
    /\ rows = 2 /\ cols = 3
    /\ Cardinality(AliveCells) = 3

----------------------------------------------------------------------------
(* C11 *)

\* C11 (as stated): the glider seeded by create_glider at any offset of an
\* all-DEAD grid of 5 or 6 rows and columns is, after exactly 4 steps, the
\* glider translated by (+1, +1) modulo rows and cols, and nothing else.
C11_GliderAnyOffset ==
    (call.op = "create_glider" /\ generation = 4) =>
        grid = Image(glider, call.start_row + 1, call.start_col + 1)

\* C11 (amended): the same for every offset at which the whole template lies
\* within the grid (0 <= start_row <= rows - 3, 0 <= start_col <= cols - 3):
\* the grid holds the glider at the offset when seeded and the glider
\* translated by (+1, +1) modulo rows and cols after exactly 4 steps.
C11_GliderTranslation ==
    (call.op = "create_glider" /\ Fits(glider, call.start_row, call.start_col)) =>
        /\ generation = 0 => grid = Image(glider, call.start_row, call.start_col)
        /\ generation = 4 =>
               grid = Image(glider, call.start_row + 1, call.start_col + 1)

\* four steps after create_glider(game, 2, 2) on a 5 x 5 grid: the glider is
\* at (3, 3), its last row wrapped to row 0 and its last column to column 0
C11_Witness ==
    /\ pc = "loop"
    /\ generation = 4
    /\ rows = 5 /\ cols = 5
    /\ call = GliderCall(2, 2)
    /\ AliveCells = {<<3, 4>>, <<4, 0>>, <<0, 3>>, <<0, 4>>, <<0, 0>>}

----------------------------------------------------------------------------
(* C12 *)

\* the blinker in its vertical phase
vertical == << <<1>>, <<1>>, <<1>> >>

\* C12: a whole 3-cell horizontal blinker seeded on an all-DEAD grid of 5 or 6
\* rows and columns is, after one step, exactly the vertical blinker through
\* the same centre cell and, after two steps, exactly the horizontal blinker
\* again; likewise at every later odd and even generation.
C12_BlinkerOscillation ==
    (call.op = "create_blinker" /\ Fits(blinker, call.start_row, call.start_col)) =>
        IF generation % 2 = 0
        THEN grid = Image(blinker, call.start_row, call.start_col)
        ELSE grid = Image(vertical, call.start_row - 1, call.start_col + 1)

\* one step after create_blinker(game, 0, 2) on a 5 x 5 grid: the vertical
\* blinker through (0, 3), its top cell wrapped to the last row
C12_Witness ==
    /\ pc = "loop"
    /\ generation = 1
    /\ rows = 5 /\ cols = 5
    /\ call = BlinkerCall(0, 2)
    /\ AliveCells = {<<4, 3>>, <<0, 3>>, <<1, 3>>}

----------------------------------------------------------------------------
(* C13 *)

\* C13: on every grid size of the run loop, the step at the end of a frame
\* that starts from an all-DEAD grid leaves an all-DEAD grid; and as long as
\* clear_grid (the C key) is the last event dispatched, that is in every later
\* state reached by steps alone, all cells are DEAD.
C13_DeadStaysDead ==
    /\ [](event = KeyEvent("K_c") => AllDead)
    /\ [][(FrameEnd /\ AllDead) => AllDead']_vars

\* two steps after the C key on the 2 x 3 grid, still all DEAD
C13_Witness ==
    /\ pc = "loop"
    /\ rows = 2 /\ cols = 3
    /\ event = KeyEvent("K_c")
    /\ nev = 0
    /\ ~paused
    /\ generation = 2
    /\ AllDead

----------------------------------------------------------------------------
(* C14 *)

\* C14: whatever the grid held before and whatever each cell's draw of
\* random.random() is (0.0 to 0.9 in tenths), randomize_grid(0.0) leaves
\* every cell DEAD and randomize_grid(1.0) leaves every cell ALIVE.
C14_DensityExtremes ==
    call.op = "randomize_grid" =>
        /\ call.density = 0 => AllDead
        /\ call.density = 10 => AllAlive

\* randomize_grid(0.0) computed on a grid that held ALIVE cells: the 3 x 3
\* grid, all DEAD
C14_Witness ==
    /\ pc = "main"
    /\ rows = 3 /\ cols = 3
    /\ call = RandomizeCall(0)
    /\ AllDead

----------------------------------------------------------------------------
(* C15 *)

\* the template the last seeding call writes
Template == IF call.op = "create_glider" THEN glider ELSE blinker

\* C15: a call of create_glider or create_blinker at an offset from (0, 0) to
\* (rows, cols) raises no fault and leaves each grid cell (i, j) holding the
\* template cell (i - start_row, j - start_col), its 1 or its 0, when the
\* template has such a cell, and what it held before when not: template cells
\* at or beyond rows or cols are skipped.
C15_SeedingClips ==
    [][call'.op \in {"create_glider", "create_blinker"} =>
          /\ pc' = "main"
          /\ call'.start_row >= 0 /\ call'.start_col >= 0
          /\ DOMAIN grid' = 0..(rows - 1)
          /\ \A i \in 0..(rows - 1) :
                 /\ DOMAIN grid'[i] = 0..(cols - 1)
                 /\ \A j \in 0..(cols - 1) :
                        LET a == i - call'.start_row + 1
                            b == j - call'.start_col + 1
                        IN  grid'[i][j] =
                                IF a \in 1..Len(Template') /\ b \in 1..Len(Template'[1])
                                THEN Template'[a][b]
                                ELSE grid[i][j]
    ]_vars

\* create_glider(game, 1, 1) on the all-ALIVE 3 x 3 grid: the template's top
\* left 2 x 2 cells written, its 0 cells included, the rest clipped, row 0 and
\* column 0 as they were
C15_Witness ==
    /\ pc = "main"
    /\ rows = 3 /\ cols = 3
    /\ call = GliderCall(1, 1)
    /\ AliveCells = {<<0, 0>>, <<0, 1>>, <<0, 2>>, <<1, 0>>, <<1, 2>>, <<2, 0>>}

----------------------------------------------------------------------------
(* C16 *)

\* C16: the generation counter is always a natural number; a step of the
\* program changes it only if it is the step that ends a frame in the Running
\* state (plus 1) or the dispatch of the R or C key (to 0); the dispatch of any
\* other event (pause, pointer press, quit, escape, ignored key or event)
\* leaves it unchanged; so it decreases only on a reset.
C16_GenerationChanges ==
    /\ [](generation \in Nat)
    /\ [][ /\ generation' # generation =>
                \/ FrameEnd /\ ~paused /\ generation' = generation + 1
                \/ /\ Dispatched(KeyEvent("K_r")) \/ Dispatched(KeyEvent("K_c"))
                   /\ generation' = 0
           /\ (pc = "events" /\ nev' = nev + 1
                 /\ event' \notin {KeyEvent("K_r"), KeyEvent("K_c")}) =>
                generation' = generation
           /\ generation' < generation => generation' = 0 ]_vars

\* a later frame of a paused game at generation 1: the second event of the
\* batch, a press of the left button on cell (1, 1), has been dispatched and
\* the counter is still 1
C16_Witness ==
    /\ pc = "events"
    /\ generation = 1
    /\ nev = 2
    /\ paused
    /\ event = MouseEvent(1, <<3, 2>>)
    /\ rows = 2 /\ cols = 3
    /\ AliveCells = {<<1, 1>>}

----------------------------------------------------------------------------
(* C17 *)

\* C17: in every state the program reaches by seeding, randomize_grid, the
\* run loop's events (randomize, clear, pointer press among them) and steps,
\* the grid is an array of exactly rows rows of exactly cols cells, each
\* holding 0 or 1.
C17_GridShape ==
    /\ DOMAIN grid = 0..(rows - 1)
    /\ \A i \in 0..(rows - 1) :
           /\ DOMAIN grid[i] = 0..(cols - 1)
           /\ \A j \in 0..(cols - 1) : grid[i][j] \in {0, 1}

\* the 1 x 2 grid seeded by create_blinker(game, 0, 0), then run: a frame
\* whose batch of two events ended with a press of the left button on cell
\* (0, 1) has ended, one step made so far
C17_Witness ==
    /\ pc = "loop"
    /\ rows = 1 /\ cols = 2
    /\ call = BlinkerCall(0, 0)
    /\ event = MouseEvent(1, <<3, 2>>)
    /\ nev = 2
    /\ ~paused
    /\ generation = 1

----------------------------------------------------------------------------
(* C18 *)

\* C18: each step of the for loop dispatches one event, the next of the batch,
\* and no step is made while the batch is being dispatched; a press of the
\* left button in the grid dispatched right after the C key in a batch leaves
\* exactly the pressed cell ALIVE; the C key dispatched right after such a
\* press leaves the grid all DEAD; and the step that ends a Running frame is
\* the step rule applied to the grid as the last dispatch left it.
C18_ArrivalOrder ==
    [][ /\ pc = "events" => (FrameEnd \/ nev' = nev + 1)
        /\ (pc = "events" /\ ~FrameEnd) => generation' \in {generation, 0}
        /\ (nev >= 1 /\ event = KeyEvent("K_c") /\ LeftClick /\ InGrid(event'.pos)) =>
               AliveCells' = {<<CellRow(event'.pos), CellCol(event'.pos)>>}
        /\ (nev >= 1 /\ event.type = "MOUSEBUTTONDOWN"
              /\ Dispatched(KeyEvent("K_c"))) => AllDead'
        /\ (FrameEnd /\ ~paused) => grid' = update_grid(grid, rows, cols)
        /\ (FrameEnd /\ paused) => grid' = grid ]_vars

\* a Running frame at generation 0 on the 2 x 3 grid: the second event of the
\* batch, a press of the left button on cell (1, 1), has been dispatched and
\* exactly that cell is ALIVE, the step of the frame still to come
C18_Witness ==
    /\ pc = "events"
    /\ rows = 2 /\ cols = 3
    /\ nev = 2
    /\ event = MouseEvent(1, <<3, 2>>)
    /\ ~paused
    /\ generation = 0
    /\ AliveCells = {<<1, 1>>}

----------------------------------------------------------------------------
(* C19 *)

\* C19: quit is acted on at the frame boundary. The frame in which a quit
\* signal or an escape key has been dispatched still ends, with one step and
\* the counter advanced by 1 unless the game is paused; the loop condition
\* tested next exits without collecting a batch; so every run in which a
\* quit or escape has been dispatched eventually terminates; and after
\* termination no step of the program changes the grid, the counter or the
\* paused flag.
C19_QuitAtFrameBoundary ==
    /\ [][ /\ (Dispatched(QuitEvent) \/ Dispatched(KeyEvent("K_ESCAPE"))) =>
                 (~running' /\ pc' = "events")
           /\ (~running /\ FrameEnd /\ ~paused) =>
                 (generation' = generation + 1 /\ grid' = update_grid(grid, rows, cols))
           /\ (~running /\ FrameEnd /\ paused) => UNCHANGED <<grid, generation>>
           /\ (~running /\ pc = "loop") => (pc' = "done" /\ nev' = nev)
           /\ pc = "done" => UNCHANGED <<grid, generation, paused, pc>> ]_vars
    /\ (pc = "events" /\ ~running) ~> (pc = "done")
    /\ [](pc = "done" => [](pc = "done"))

\* the loop has exited after a Running frame whose only event was the quit
\* signal: that frame still made its step
C19_Witness ==
    /\ pc = "done"
    /\ nev = 1
    /\ event = QuitEvent
    /\ ~paused
    /\ generation = 1
    /\ rows = 1 /\ cols = 2

====
